---- MODULE Spec2Model ----
(***************************************************************************)
(* Bowling-like score calculator (src/script.js).                          *)
(*                                                                         *)
(* A JavaScript number slot is modelled as a set: {} is NaN ("unrecorded", *)
(* also what reading an array hole or an index past the end yields in      *)
(* every arithmetic, comparison and isNaN use the script makes) and {v} is *)
(* the integer v.  A throws array is a function on 1..n (index 0 of the    *)
(* script's arrays is never read or written).                              *)
(***************************************************************************)
EXTENDS Integers, Sequences, FiniteSets, TLC

\* ---------------------------------------------------------------- bounds
MaxFrames == 2
MaxStrike == 2
MaxEvents == 2
MaxValidate == 2
\* depth of the JavaScript call stack available to the recursive lookahead
StackDepth == 12

\* ------------------------------------------------------ program constants
players == 2

\* ------------------------------------------------------------- variables
VARIABLES
    formFrames,   \* settingsForm.elements["frames"].value
    formStrike,   \* settingsForm.elements["strike"].value
    scores,       \* scores[player] = [name, throws]
    display,      \* what the last drawScoreTable rendered
    inputTable,   \* what the last drawInputTable rendered
    nEvents,      \* number of user events so far
    call          \* a single application of validate / frameTotal to an array

vars == <<formFrames, formStrike, scores, display, inputTable, nEvents, call>>

\* ------------------------------------------------------ JavaScript values
NaN == {}
Num(v) == {v}
isNaN(x) == x = {}
Val(x) == CHOOSE v \in x : TRUE

Lt(x, y) == x # NaN /\ y # NaN /\ Val(x) < Val(y)
Gt(x, y) == x # NaN /\ y # NaN /\ Val(x) > Val(y)
Ge(x, y) == x # NaN /\ y # NaN /\ Val(x) >= Val(y)
Add(x, y) == IF x = NaN \/ y = NaN THEN NaN ELSE Num(Val(x) + Val(y))
Sub(x, y) == IF x = NaN \/ y = NaN THEN NaN ELSE Num(Val(x) - Val(y))

\* input[i]
Get(input, i) == IF i \in DOMAIN input THEN input[i] ELSE NaN

Max(a, b) == IF a >= b THEN a ELSE b

\* input[i] = v  (an assignment past the end lengthens the array)
Set(input, i, v) ==
    [j \in 1..Max(Len(input), i) |-> IF j = i THEN v ELSE Get(input, j)]

Digits == <<"0", "1", "2", "3", "4", "5", "6", "7", "8", "9">>

RECURSIVE toString(_)
toString(n) ==
    IF n < 0 THEN "-" \o toString(-n)
    ELSE IF n < 10 THEN Digits[n + 1]
    ELSE toString(n \div 10) \o Digits[(n % 10) + 1]

\* ------------------------------------------------------------ resetScores
NewThrows(frames) == [t \in 1..(frames * 2 + 1) |-> NaN]

resetScores(frames) ==
    [player \in 1..players |->
        [name |-> "Player " \o toString(player), throws |-> NewThrows(frames)]]

\* --------------------------------------------------------------- validate
\* ClampSlot without the upper clamp of line 50
ClampSlotNoUpper(v, strike) ==
    IF Lt(v, Num(0)) THEN Num(0) ELSE v

ClampSlot(v, strike) ==
    LET a == IF Lt(v, Num(0)) THEN Num(0) ELSE v
    IN  IF Gt(a, Num(strike)) THEN Num(strike) ELSE a

ClampPass(input, frames, strike) ==
    [t \in DOMAIN input |->
        IF t <= frames * 2 + 1 THEN ClampSlot(input[t], strike) ELSE input[t]]

\* RepairFrame without the strike rule of line 60
RepairFrameNoStrike(input, frame, strike) ==
    IF Gt(Add(Get(input, frame * 2 - 1), Get(input, frame * 2)), Num(strike))
    THEN Set(input, frame * 2, Sub(Num(strike), Get(input, frame * 2 - 1)))
    ELSE input

\* RepairFrame with the operands of the subtraction of line 59 exchanged
RepairFrameSwapped(input, frame, strike) ==
    LET a == IF Gt(Add(Get(input, frame * 2 - 1), Get(input, frame * 2)), Num(strike))
             THEN Set(input, frame * 2, Sub(Get(input, frame * 2 - 1), Num(strike)))
             ELSE input
    IN  IF Ge(Get(a, frame * 2 - 1), Num(strike))
        THEN Set(a, frame * 2, NaN)
        ELSE a

\* body of the frame loop after the last-frame test (lines 58-60)
RepairFrame(input, frame, strike) ==
    LET a == IF Gt(Add(Get(input, frame * 2 - 1), Get(input, frame * 2)), Num(strike))
             THEN Set(input, frame * 2, Sub(Num(strike), Get(input, frame * 2 - 1)))
             ELSE input
    IN  IF Ge(Get(a, frame * 2 - 1), Num(strike))
        THEN Set(a, frame * 2, NaN)
        ELSE a

RECURSIVE FrameLoop(_, _, _, _)
FrameLoop(input, frame, frames, strike) ==
    IF frame > frames THEN input
    ELSE IF frame = frames
    THEN IF Lt(Add(Get(input, frame * 2 - 1), Get(input, frame * 2)), Num(strike))
         THEN FrameLoop(RepairFrame(Set(input, frame * 2 + 1, NaN), frame, strike),
                        frame + 1, frames, strike)
         ELSE input
    ELSE FrameLoop(RepairFrame(input, frame, strike), frame + 1, frames, strike)

\* validate without the "else break" of line 56: the last frame is repaired
\* like every other frame
RECURSIVE EveryFrameLoop(_, _, _, _)
EveryFrameLoop(input, frame, frames, strike) ==
    IF frame > frames THEN input
    ELSE IF frame = frames
            /\ Lt(Add(Get(input, frame * 2 - 1), Get(input, frame * 2)), Num(strike))
    THEN EveryFrameLoop(RepairFrame(Set(input, frame * 2 + 1, NaN), frame, strike),
                        frame + 1, frames, strike)
    ELSE EveryFrameLoop(RepairFrame(input, frame, strike), frame + 1, frames, strike)

validateEveryFrame(input, frames, strike) ==
    EveryFrameLoop(ClampPass(input, frames, strike), 1, frames, strike)

validate(input, frames, strike) ==
    FrameLoop(ClampPass(input, frames, strike), 1, frames, strike)

\* ------------------------------------------------------------ throwString
throwString(input, throws, frames, strike) ==
    LET currentThrow == Get(input, throws)
    IN  IF isNaN(currentThrow) THEN "&nbsp;"
        ELSE IF throws % 2 = 1
                \/ (throws = frames * 2 /\ Ge(Get(input, throws - 1), Num(strike)))
        THEN IF Ge(currentThrow, Num(strike)) THEN "X"
             ELSE IF currentThrow = Num(0) THEN "G"
             ELSE toString(Val(currentThrow))
        ELSE IF Ge(Add(currentThrow, Get(input, throws - 1)), Num(strike)) THEN "/"
        ELSE IF currentThrow = Num(0) THEN "-"
        ELSE toString(Val(currentThrow))

\* ------------------------------------------------------------- frameTotal
\* Outcome of one lookahead: kind "ok" with the index found, "Error" (the
\* script's own "Invalid frame access"), or "RangeError" (call stack
\* exhausted); probe is the highest index the lookahead read.
RECURSIVE next(_, _, _, _)
next(input, throws, frames, depth) ==
    IF depth > StackDepth
    THEN [kind |-> "RangeError", idx |-> 0, probe |-> throws]
    ELSE IF isNaN(Get(input, throws + 1))
    THEN next(input, throws + 1, frames, depth + 1)
    ELSE IF throws > frames * 2 + 1
    THEN [kind |-> "Error", idx |-> 0, probe |-> throws + 1]
    ELSE [kind |-> "ok", idx |-> throws + 1, probe |-> throws + 1]

\* next(next(throws))
next2(input, throws, frames) ==
    LET n1 == next(input, throws, frames, 1)
    IN  IF n1.kind # "ok" THEN n1
        ELSE LET n2 == next(input, n1.idx, frames, 1)
             IN  [n2 EXCEPT !.probe = Max(n1.probe, n2.probe)]

capStrike(value, strike) == IF Gt(value, Num(strike)) THEN Num(strike) ELSE value

\* one iteration of the loop of frameTotal: the value pushed, and what the
\* lookaheads of the iteration did
frameScore(input, throws, frames, strike) ==
    IF Ge(Get(input, throws), Num(strike))
    THEN LET n1 == next(input, throws, frames, 1)
             n2 == next2(input, throws, frames)
         IN  IF n1.kind # "ok"
             THEN [value |-> NaN, kinds |-> {n1.kind}, probe |-> n1.probe]
             ELSE IF n2.kind # "ok"
             THEN [value |-> NaN, kinds |-> {n1.kind, n2.kind},
                   probe |-> Max(n1.probe, n2.probe)]
             ELSE [value |-> Add(Add(Num(strike), capStrike(Get(input, n1.idx), strike)),
                                 capStrike(Get(input, n2.idx), strike)),
                   kinds |-> {"ok"}, probe |-> Max(n1.probe, n2.probe)]
    ELSE IF Ge(Add(Get(input, throws + 1), Get(input, throws)), Num(strike))
    THEN LET n2 == next2(input, throws, frames)
         IN  IF n2.kind # "ok"
             THEN [value |-> NaN, kinds |-> {n2.kind}, probe |-> n2.probe]
             ELSE [value |-> Add(Num(strike), capStrike(Get(input, n2.idx), strike)),
                   kinds |-> {"ok"}, probe |-> n2.probe]
    ELSE IF isNaN(Get(input, throws + 1)) \/ isNaN(Get(input, throws))
    THEN [value |-> NaN, kinds |-> {}, probe |-> 0]
    ELSE [value |-> Add(Get(input, throws), Get(input, throws + 1)),
          kinds |-> {}, probe |-> 0]

\* result[frame - 1] for frame in 1..frames (throws = 1, 3, ..., frames*2 - 1)
frameTotal(input, frames, strike) ==
    [frame \in 1..frames |-> frameScore(input, frame * 2 - 1, frames, strike).value]

\* what the lookaheads of a whole frameTotal call did
lookahead(input, frames, strike) ==
    LET fs == [frame \in 1..frames |-> frameScore(input, frame * 2 - 1, frames, strike)]
    IN  [kinds |-> UNION {fs[f].kinds : f \in 1..frames},
         probe |-> IF frames = 0 THEN 0
                   ELSE CHOOSE m \in {fs[f].probe : f \in 1..frames} :
                            \A f \in 1..frames : fs[f].probe <= m]

\* ---------------------------------------------- drawScoreTable, per player
\* the cumulative cells of the frame row: sum is only advanced by the frames
\* whose subtotal is a number (line 155)
RECURSIVE cumulative(_, _, _)
cumulative(subtotal, frame, sum) ==
    IF frame > Len(subtotal) THEN << >>
    ELSE IF isNaN(subtotal[frame])
    THEN << NaN >> \o cumulative(subtotal, frame + 1, sum)
    ELSE << Num(sum + Val(subtotal[frame])) >>
         \o cumulative(subtotal, frame + 1, sum + Val(subtotal[frame]))

\* reduceSum that leaves the incomplete frames out, as the cumulative cells do
RECURSIVE reduceSumSkip(_, _, _)
reduceSumSkip(subtotal, frame, sum) ==
    IF frame > Len(subtotal) THEN sum
    ELSE IF isNaN(subtotal[frame]) THEN reduceSumSkip(subtotal, frame + 1, sum)
    ELSE reduceSumSkip(subtotal, frame + 1, Add(sum, subtotal[frame]))

\* subtotal.reduce((sum, value) => sum + value, 0)
RECURSIVE reduceSum(_, _, _)
reduceSum(subtotal, frame, sum) ==
    IF frame > Len(subtotal) THEN sum
    ELSE reduceSum(subtotal, frame + 1, Add(sum, subtotal[frame]))

\* the two table rows drawn for one player from an already validated array
drawRow(name, input, frames, strike) ==
    LET subtotal == frameTotal(input, frames, strike)
    IN  [name     |-> name,
         glyphs   |-> [t \in 1..(frames * 2 + 1) |-> throwString(input, t, frames, strike)],
         subtotal |-> subtotal,
         cum      |-> cumulative(subtotal, 1, 0),
         total    |-> reduceSum(subtotal, 1, Num(0)),
         look     |-> lookahead(input, frames, strike)]

\* scores after drawScoreTable has validated every player's array in place
validated(s, frames, strike) ==
    [player \in 1..players |->
        [s[player] EXCEPT !.throws = validate(s[player].throws, frames, strike)]]

\* the display table drawn from validated scores; frames and strike are the
\* values drawScoreTable read from the settings form
drawScoreTable(s, frames, strike) ==
    [frames |-> frames,
     strike |-> strike,
     rows   |-> [player \in 1..players |->
                    drawRow(s[player].name, s[player].throws, frames, strike)]]

\* the input table: one number field per slot, max = strike
drawInputTable(frames, strike) == [cols |-> frames * 2 + 1, max |-> strike]

\* ------------------------------------------------------------ event loop
Frames == 1..MaxFrames
Strikes == 1..MaxStrike
\* parseInt(event.target.value, 10): an integer, or NaN for an empty field
RawValues(strike) == {NaN} \cup {Num(v) : v \in -1..(strike + 1)}
Names == {"A"}

NoCall == [input |-> << >>, n |-> 0, scored |-> FALSE,
           row |-> drawRow("", << >>, 0, 1)]

\* state after the script has run: resetScores(); drawScoreTable(); drawInputTable()
Init ==
    /\ formFrames \in Frames
    /\ formStrike \in Strikes
    /\ scores = validated(resetScores(formFrames), formFrames, formStrike)
    /\ display = drawScoreTable(scores, formFrames, formStrike)
    /\ inputTable = drawInputTable(formFrames, formStrike)
    /\ nEvents = 0
    /\ call = NoCall

\* the user types into the "frames" field of the settings form
SetFrames ==
    /\ nEvents < MaxEvents
    /\ \E f \in Frames : f # formFrames /\ formFrames' = f
    /\ nEvents' = nEvents + 1
    /\ UNCHANGED <<formStrike, scores, display, inputTable, call>>

\* the user types into the "strike" field of the settings form
SetStrike ==
    /\ nEvents < MaxEvents
    /\ \E s \in Strikes : s # formStrike /\ formStrike' = s
    /\ nEvents' = nEvents + 1
    /\ UNCHANGED <<formFrames, scores, display, inputTable, call>>

\* settingsForm "submit"
Submit ==
    /\ nEvents < MaxEvents
    /\ scores' = validated(resetScores(formFrames), formFrames, formStrike)
    /\ display' = drawScoreTable(scores', formFrames, formStrike)
    /\ inputTable' = drawInputTable(formFrames, formStrike)
    /\ nEvents' = nEvents + 1
    /\ UNCHANGED <<formFrames, formStrike, call>>

\* "blur" of a player-name field
NameBlur ==
    /\ nEvents < MaxEvents
    /\ \E player \in 1..players, value \in Names :
          /\ scores' = validated([scores EXCEPT ![player].name = value],
                                 formFrames, formStrike)
          /\ display' = drawScoreTable(scores', formFrames, formStrike)
    /\ nEvents' = nEvents + 1
    /\ UNCHANGED <<formFrames, formStrike, inputTable, call>>

\* "blur" of a throw field
ThrowBlur ==
    /\ nEvents < MaxEvents
    /\ \E player \in 1..players, throwIndex \in 1..inputTable.cols,
          value \in RawValues(MaxStrike) :
          /\ scores' = validated(
                 [scores EXCEPT ![player].throws = Set(@, throwIndex, value)],
                 formFrames, formStrike)
          /\ display' = drawScoreTable(scores', formFrames, formStrike)
    /\ nEvents' = nEvents + 1
    /\ UNCHANGED <<formFrames, formStrike, inputTable, call>>

Next == SetFrames \/ SetStrike \/ Submit \/ NameBlur \/ ThrowBlur

Spec == Init /\ [][Next]_vars

\* ------------------------------------------- validate / frameTotal alone
\* an arbitrary array of frames*2+1 slots is validated (possibly repeatedly)
\* and then scored, under the configuration of the settings form
CallInit ==
    /\ formFrames \in Frames
    /\ formStrike \in Strikes
    /\ scores = validated(resetScores(formFrames), formFrames, formStrike)
    /\ display = drawScoreTable(scores, formFrames, formStrike)
    /\ inputTable = drawInputTable(formFrames, formStrike)
    /\ nEvents = 0
    /\ \E input \in [1..(formFrames * 2 + 1) -> RawValues(formStrike)] :
          call = [NoCall EXCEPT !.input = input]

Validate ==
    /\ call.n < MaxValidate
    /\ ~call.scored
    /\ call' = [call EXCEPT !.input = validate(call.input, formFrames, formStrike),
                            !.n = call.n + 1]
    /\ UNCHANGED <<formFrames, formStrike, scores, display, inputTable, nEvents>>

Score ==
    /\ call.n >= 1
    /\ ~call.scored
    /\ call' = [call EXCEPT !.scored = TRUE,
                            !.row = drawRow("", call.input, formFrames, formStrike)]
    /\ UNCHANGED <<formFrames, formStrike, scores, display, inputTable, nEvents>>

CallNext == Validate \/ Score

CallSpec == CallInit /\ [][CallNext]_vars

\* ================================================================ claims
Recorded(v) == ~isNaN(v)

\* the configuration the display was drawn with is the one of the last reset
ConfigAsReset ==
    /\ inputTable = drawInputTable(display.frames, display.strike)
    /\ \A player \in 1..players :
          Len(scores[player].throws) = display.frames * 2 + 1

RECURSIVE SumTo(_, _)
SumTo(subtotal, j) ==
    IF j = 0 THEN 0 ELSE SumTo(subtotal, j - 1) + Val(subtotal[j])

\* ---- C1
AllStrikes(frames, strike) ==
    [t \in 1..(frames * 2 + 1) |->
        IF (t % 2 = 1 /\ t <= frames * 2 - 1) \/ t = frames * 2 \/ t = frames * 2 + 1
        THEN Num(strike) ELSE NaN]

\* C1: an all-strikes array (every frame's first throw, the last frame's
\* second slot and the bonus slot equal strikeValue, all else unrecorded) is
\* left unchanged by validate, and frameTotal then gives frameCount subtotals
\* of 3*strikeValue each and a total of 3*strikeValue*frameCount.
C1_AllStrikes ==
    [][call.input = AllStrikes(formFrames, formStrike) =>
          /\ call'.input = call.input
          /\ call'.scored =>
                /\ call'.row.subtotal = [f \in 1..formFrames |-> Num(3 * formStrike)]
                /\ call'.row.total = Num(3 * formStrike * formFrames)]_vars

C1_Witness ==
    /\ call.scored
    /\ formFrames >= 2
    /\ call.input = AllStrikes(formFrames, formStrike)
    /\ call.row.total = Num(3 * formStrike * formFrames)

\* ---- C2
\* C2 as stated: after validate, in every frame 1..frameCount, the last one
\* included, a first throw >= strikeValue leaves the second slot unrecorded.
C2_StrikeClearsSecondEveryFrame ==
    call.n >= 1 =>
        \A f \in 1..formFrames :
            Ge(Get(call.input, 2 * f - 1), Num(formStrike))
                => isNaN(Get(call.input, 2 * f))

\* C2 amended: after validate, in every frame before the last one, a first
\* throw >= strikeValue leaves the second slot of the frame unrecorded.
C2_StrikeClearsSecondBeforeLast ==
    call.n >= 1 =>
        \A f \in 1..(formFrames - 1) :
            Ge(Get(call.input, 2 * f - 1), Num(formStrike))
                => isNaN(Get(call.input, 2 * f))

C2_Witness ==
    /\ call.n >= 1
    /\ formFrames >= 2
    /\ Ge(Get(call.input, 1), Num(formStrike))
    /\ isNaN(Get(call.input, 2))
    /\ Ge(Get(call.input, 2 * formFrames - 1), Num(formStrike))
    /\ Recorded(Get(call.input, 2 * formFrames))

\* ---- C3
\* C3: after a recompute, in every frame 1..frameCount (the last included)
\* whose first throw is below strikeValue and whose two throws are recorded,
\* first + second <= strikeValue.
C3_OpenFrameSumWithinStrike ==
    ConfigAsReset =>
        \A player \in 1..players, f \in 1..display.frames :
            LET first == Get(scores[player].throws, 2 * f - 1)
                second == Get(scores[player].throws, 2 * f)
            IN  (Lt(first, Num(display.strike)) /\ Recorded(second))
                    => ~Gt(Add(first, second), Num(display.strike))

\* ---- C4
\* C4: after a recompute the bonus slot is recorded only if the last frame
\* qualifies: its first throw is >= strikeValue, or both its throws are
\* recorded and sum to >= strikeValue.
C4_BonusOnlyIfQualified ==
    ConfigAsReset =>
        \A player \in 1..players :
            LET first == Get(scores[player].throws, 2 * display.frames - 1)
                second == Get(scores[player].throws, 2 * display.frames)
            IN  Recorded(Get(scores[player].throws, 2 * display.frames + 1))
                    => \/ Ge(first, Num(display.strike))
                       \/ Ge(Add(first, second), Num(display.strike))

\* ---- C5
\* C5: the cumulative cell of frame j is blank as soon as some frame k <= j
\* is incomplete, and otherwise is the sum of the subtotals 1..j.
C5_CumulativeShortCircuits ==
    ConfigAsReset =>
        \A player \in 1..players, j \in 1..display.frames :
            LET row == display.rows[player]
            IN  IF \E k \in 1..j : isNaN(row.subtotal[k])
                THEN isNaN(row.cum[j])
                ELSE row.cum[j] = Num(SumTo(row.subtotal, j))

\* ---- C6
\* C6: after every event, every recorded slot 1..2*frameCount+1 of every
\* player's stored array lies in 0..strikeValue, for the frameCount and
\* strikeValue the recompute of that event used.
C6_ClampInvariant ==
    \A player \in 1..players, t \in 1..(display.frames * 2 + 1) :
        LET v == Get(scores[player].throws, t)
        IN  Recorded(v) => (0 <= Val(v) /\ Val(v) <= display.strike)

C6_Witness ==
    /\ nEvents >= 2
    /\ ConfigAsReset
    /\ \E player \in 1..players :
          \E t, u \in 1..(display.frames * 2 + 1) :
              /\ Get(scores[player].throws, t) = Num(display.strike)
              /\ Get(scores[player].throws, u) = Num(0)

\* ---- C7
\* C7: validate is idempotent: once an array has been validated, validating
\* it again (or scoring it) leaves every slot as it is.
C7_ValidateIdempotent ==
    [][call.n >= 1 => call'.input = call.input]_vars

C7_Witness ==
    /\ call.n >= 2
    /\ formFrames >= 2
    /\ \E t \in 1..(formFrames * 2 + 1) : Recorded(Get(call.input, t))
    /\ \E t \in 1..(formFrames * 2 + 1) : isNaN(Get(call.input, t))

\* ---- C8
\* C8: frameTotal yields exactly frameCount subtotals; the total is blank if
\* one of them is incomplete and is the sum of all of them otherwise.
C8_TotalPropagatesIncomplete ==
    call.scored =>
        /\ Len(call.row.subtotal) = formFrames
        /\ IF \E f \in 1..formFrames : isNaN(call.row.subtotal[f])
           THEN isNaN(call.row.total)
           ELSE call.row.total = Num(SumTo(call.row.subtotal, formFrames))

C8_Witness ==
    /\ call.scored
    /\ \E f, g \in 1..formFrames :
          /\ isNaN(call.row.subtotal[f])
          /\ Recorded(call.row.subtotal[g])
    /\ isNaN(call.row.total)

\* ---- C9
\* C9: the lookahead of frameTotal stops once its index passes 2*frameCount+1:
\* it reads no slot past the one after the end of the array, and never runs
\* until the call stack is exhausted.
C9_LookaheadBounded ==
    ConfigAsReset =>
        \A player \in 1..players :
            /\ "RangeError" \notin display.rows[player].look.kinds
            /\ display.rows[player].look.probe <= display.frames * 2 + 2

\* ---- C10
\* C10: every recompute uses the frameCount and strikeValue of the most
\* recent reset, so every stored array has exactly 2*frameCount+1 slots for
\* the frameCount the recompute used.
C10_ConfigFixedBetweenResets ==
    /\ display.frames * 2 + 1 = inputTable.cols
    /\ display.strike = inputTable.max
    /\ \A player \in 1..players :
          Len(scores[player].throws) = display.frames * 2 + 1
====
